---- MODULE Spec2Model ----
(***************************************************************************)
(* Verification model of the GitHub analytics scripts:                     *)
(*   scripts/analytics.py      aggregate, iter_repos, bucket_time_of_day   *)
(*                             render_markdown (language rows), main       *)
(*   scripts/github_client.py  GitHubClient.request, GitHubClient.paginate *)
(*   scripts/utils.py          ReadmeSection.replace                       *)
(*   scripts/readme_updater.py ReadmeUpdater.update_section                *)
(*   scripts/render_cards.py   fetch_daily_contributions, compute_streaks  *)
(* One specification per component: SpecAgg, SpecCommits, SpecMain,        *)
(* SpecRender, SpecBuckets, SpecReadme, SpecClient, SpecSeries,            *)
(* SpecStreaks.                                                            *)
(* Variables of the other components stay at their initial values.         *)
(***************************************************************************)
EXTENDS Integers, Sequences, FiniteSets, TLC

VARIABLES
    \* ---- analytics.aggregate
    cfg,            \* Config: exclude_forks, exclude_merge_commits, timezone
    apc,            \* position of aggregate: "repos","langs","commits","page","returned","raised"
    repoIter,       \* iter_repos generator: [page, left, more]
    commitIter,     \* list_commits generator of the current repository: [page, left, more]
    total_commits,
    tod,
    weekday,
    lang_bytes,
    seen_shas,
    counted,        \* history: how often each sha has been counted
    ev,             \* history: what the last step of aggregate did
    rec,            \* history (SpecCommits): the commit record the last step handled, if any
    \* ---- analytics.render_markdown, the language rows
    rpc,            \* "render", "rendered": position of render_markdown
    lang_items,     \* lang_bytes.items(), in the order of the dict
    language_allowlist,
    lang_sorted,    \* the rows after sorting and folding
    lang_counts,    \* the rows as the bar table shows them
    \* ---- analytics.bucket_time_of_day on a converted timestamp
    bpc,            \* "convert", "bucketed"
    utc_ts,         \* utc_dt, the parsed timestamp
    tz,             \* the zone's offset from UTC, in minutes
    local_ts,       \* local_dt = utc_dt.astimezone(tz)
    bucket,         \* the key of tod that is incremented
    \* ---- readme_updater.ReadmeUpdater / utils.ReadmeSection
    readme,         \* text of the file at readme_path
    arg,            \* new_inner_markdown, the text the calls are made with
    upc,            \* "first", "second", "done": the call that comes next
    rets,           \* history: outcome of each update_section call
    hist,           \* history: the file's text before each call
    wrote,          \* history: whether each call called write_text
    \* ---- github_client.GitHubClient.paginate / request
    cpc,            \* "call", "retry", "yielded", "done", "raised"
    page,           \* paginate's page
    data,           \* what the last request() returned to paginate
    rl,             \* request's rl, parsed from its first response
    now,            \* int(time.time())
    sent,           \* history: the responses to the sends of the current request() call
    sleeps,         \* history: the time.sleep calls of the current request() call
    reqPages,       \* history: the page number of every request() call
    results,        \* history: how every request() call ended
    yielded,        \* history: the lengths of the pages yielded
    \* ---- render_cards.fetch_daily_contributions / compute_streaks
    spc,            \* "fetch", "filled": position of fetch_daily_contributions
    days,           \* the days argument
    entries,        \* the contributionDays of the calendar, weeks flattened in order
    filled,         \* the list fetch_daily_contributions returns
    kpc,            \* "compute", "computed": position of compute_streaks
    points,         \* the argument of compute_streaks
    streaks         \* the tuple compute_streaks returns

aggVars == <<cfg, apc, repoIter, commitIter, total_commits, tod, weekday,
             lang_bytes, seen_shas, counted, ev, rec>>

renderVars == <<rpc, lang_items, language_allowlist, lang_sorted, lang_counts>>

bucketVars == <<bpc, utc_ts, tz, local_ts, bucket>>

readmeVars == <<readme, arg, upc, rets, hist, wrote>>

clientVars == <<cpc, page, data, rl, now, sent, sleeps, reqPages, results, yielded>>

seriesVars == <<spc, days, entries, filled>>
streakVars == <<kpc, points, streaks>>

vars == <<aggVars, renderVars, bucketVars, readmeVars, clientVars, seriesVars, streakVars>>

\* ------------------------------------------------------------------ bounds
PerPage == 2          \* per_page of paginate, scaled down from the default 100
MaxRepos == 2         \* the repository list holds at most this many repositories
MaxCommits == 3       \* a repository's commit list holds at most this many records
NumShas == 2          \* distinct commit shas the server can return

\* =================================================================
\* analytics.py
\* =================================================================
TIME_BUCKETS ==
    << [name |-> "Morning", start |-> 6,  end |-> 12],
       [name |-> "Day",     start |-> 12, end |-> 18],
       [name |-> "Evening", start |-> 18, end |-> 22],
       [name |-> "Night",   start |-> 22, end |-> 6] >>

WEEKDAYS ==
    <<"Monday", "Tuesday", "Wednesday", "Thursday", "Friday", "Saturday", "Sunday">>

BucketNames == {TIME_BUCKETS[i].name : i \in 1..Len(TIME_BUCKETS)}
WeekdayNames == {WEEKDAYS[i] : i \in 1..Len(WEEKDAYS)}

\* A lookup whose ranges include their end hour.
RECURSIVE BucketFromClosedEnd(_, _)
BucketFromClosedEnd(hour, i) ==
    IF i > Len(TIME_BUCKETS) THEN "Night"
    ELSE LET b == TIME_BUCKETS[i] IN
         IF b.start < b.end
         THEN IF b.start <= hour /\ hour <= b.end THEN b.name
              ELSE BucketFromClosedEnd(hour, i + 1)
         ELSE IF hour >= b.start \/ hour <= b.end THEN b.name
              ELSE BucketFromClosedEnd(hour, i + 1)

\* bucket_time_of_day: the first bucket of TIME_BUCKETS, in order, that holds
\* the hour; "Night" when none does.
RECURSIVE BucketFrom(_, _)
BucketFrom(hour, i) ==
    IF i > Len(TIME_BUCKETS) THEN "Night"
    ELSE LET b == TIME_BUCKETS[i] IN
         IF b.start < b.end
         THEN IF b.start <= hour /\ hour < b.end THEN b.name ELSE BucketFrom(hour, i + 1)
         ELSE IF hour >= b.start \/ hour < b.end THEN b.name ELSE BucketFrom(hour, i + 1)

bucket_time_of_day(local_dt) == BucketFrom(local_dt.hour, 1)

\* dt.astimezone(tz) for a zone off minutes ahead of UTC (behind when
\* negative, |off| less than a day): the minutes of the day wrap modulo
\* 1440 and the weekday (Monday = 0) moves with them.
MinutesPerDay == 1440
astimezone(dt, off) ==
    LET m == dt.hour * 60 + dt.minute + off IN
    [wd     |-> (dt.wd + (IF m < 0 THEN 6 ELSE IF m >= MinutesPerDay THEN 1 ELSE 0)) % 7,
     hour   |-> ((m + MinutesPerDay) % MinutesPerDay) \div 60,
     minute |-> (m + MinutesPerDay) % 60]

\* A classification that asks for both signs of a merge.
MergeNeedsBothSigns(c) == c.msgMerge /\ c.nparents > 1

\* is_merge_commit: message prefix "Merge " or more than one parent.
is_merge_commit(c) == c.msgMerge \/ c.nparents > 1

\* ------------------------------------------------------------ the inputs
Shas == 1..NumShas
NoSha == 0                                  \* c.get("sha") is None or ""
UtcWeekdays == {6}
UtcHours == {9, 23}
UtcMinutes == {0}
TzOffsets == {330}                          \* Asia/Kolkata, the default of --timezone
Dates ==
    {[kind |-> k, wd |-> 0, hour |-> 0, minute |-> 0] : k \in {"missing", "malformed"}}
    \cup {[kind |-> "ok", wd |-> w, hour |-> h, minute |-> m] :
             w \in UtcWeekdays, h \in UtcHours, m \in UtcMinutes}
CommitRecords ==
    [sha : Shas \cup {NoSha}, msgMerge : BOOLEAN, nparents : 0..2, date : Dates]
Repos == [fork : BOOLEAN, named : BOOLEAN]   \* named: owner login and name both present
Langs == {"Python"}
\* get_languages of one repository: a byte count for some of the languages.
LangMaps == UNION {[D -> {1}] : D \in SUBSET Langs}

\* ------------------------------------------------------- paginate, abstractly
\* A paginate generator as aggregate sees it: page is the number of the next
\* page to request, left the records of the current page not yet consumed,
\* more whether the current page was full (another request follows it).
NewIter == [page |-> 1, left |-> 0, more |-> TRUE]

\* The lengths a list response for page p of a collection of at most size
\* records can have: at most per_page, and at most what the earlier full
\* pages have left.
Min(a, b) == IF a <= b THEN a ELSE b
Max(a, b) == IF a >= b THEN a ELSE b
PageLens(p, size) == 0..Min(PerPage, Max(0, size - (p - 1) * PerPage))

\* The generator after a response of n records (n = 0 also stands for a
\* response that is not a list): it yields the page when n > 0, and asks for
\* another page only after a full one.
AfterPage(it, n) == [page |-> it.page + 1, left |-> n, more |-> n = PerPage]

Exhausted(it) == it.left = 0 /\ ~it.more
NeedsFetch(it) == it.left = 0 /\ it.more

\* ------------------------------------------------------------- aggregate
\* What the history keeps of a commit record c met in "for c in page": its
\* two merge attributes, and whether the checks other than the merge check
\* let it through to the counting (a sha that was not seen before, a date
\* that parses).
Handled(c, seen) ==
    [msgMerge |-> c.msgMerge, nparents |-> c.nparents,
     eligible |-> c.sha # NoSha /\ c.sha \notin seen /\ c.date.kind = "ok"]
NoRecord == [msgMerge |-> FALSE, nparents |-> 0, eligible |-> FALSE]

ZeroTod == [b \in BucketNames |-> 0]
ZeroWeekday == [d \in WeekdayNames |-> 0]

AggInit ==
    /\ cfg \in [exclude_forks : BOOLEAN, exclude_merge_commits : BOOLEAN,
                timezone : TzOffsets]
    /\ apc = "repos"
    /\ repoIter = NewIter
    /\ commitIter = NewIter
    /\ total_commits = 0
    /\ tod = ZeroTod
    /\ weekday = ZeroWeekday
    /\ lang_bytes = << >>
    /\ seen_shas = {}
    /\ counted = [s \in Shas |-> 0]
    /\ ev = "start"
    /\ rec = NoRecord

\* iter_repos asks the client for the next page of the repository list
\* (list_user_repos_auth when include_private, else list_user_repos_public).
\* The request may raise: nothing in aggregate catches it.
IterReposFetchFails ==
    /\ apc = "repos" /\ NeedsFetch(repoIter)
    /\ apc' = "raised"
    /\ ev' = "listfail"
    /\ rec' = NoRecord
    /\ UNCHANGED <<cfg, repoIter, commitIter, total_commits, tod, weekday,
                   lang_bytes, seen_shas, counted>>

IterReposFetch ==
    /\ apc = "repos" /\ NeedsFetch(repoIter)
    /\ \E n \in PageLens(repoIter.page, MaxRepos) :
         /\ repoIter' = AfterPage(repoIter, n)
         /\ apc' = IF n = 0 THEN "returned" ELSE "repos"
    /\ ev' = "repopage"
    /\ rec' = NoRecord
    /\ UNCHANGED <<cfg, commitIter, total_commits, tod, weekday,
                   lang_bytes, seen_shas, counted>>

\* The repository list is exhausted after a short page: aggregate returns.
AggReturn ==
    /\ apc = "repos" /\ Exhausted(repoIter)
    /\ apc' = "returned"
    /\ ev' = "return"
    /\ rec' = NoRecord
    /\ UNCHANGED <<cfg, repoIter, commitIter, total_commits, tod, weekday,
                   lang_bytes, seen_shas, counted>>

\* for repo in iter_repos(...): forks (when excluded) and repositories
\* without owner or name are skipped.
TakeRepo ==
    /\ apc = "repos" /\ repoIter.left > 0
    /\ \E repo \in Repos :
         /\ repoIter' = [repoIter EXCEPT !.left = @ - 1]
         /\ apc' = IF (cfg.exclude_forks /\ repo.fork) \/ ~repo.named
                   THEN "repos" ELSE "langs"
    /\ ev' = "repo"
    /\ rec' = NoRecord
    /\ UNCHANGED <<cfg, commitIter, total_commits, tod, weekday,
                   lang_bytes, seen_shas, counted>>

\* lang_bytes[lang] += int(b) for every language of the repository.
AddLangs(lb, langs) ==
    [l \in (DOMAIN lb) \cup (DOMAIN langs) |->
        (IF l \in DOMAIN lb THEN lb[l] ELSE 0)
        + (IF l \in DOMAIN langs THEN langs[l] ELSE 0)]

GetLanguagesOk ==
    /\ apc = "langs"
    /\ \E langs \in LangMaps : lang_bytes' = AddLangs(lang_bytes, langs)
    /\ apc' = "commits"
    /\ ev' = "langs"
    /\ rec' = NoRecord
    /\ UNCHANGED <<cfg, repoIter, commitIter, total_commits, tod, weekday, seen_shas, counted>>

\* The except clause around get_languages: the failure is logged and the
\* commits of the same repository are fetched next.
LangsFailure == /\ apc' = "commits"
                /\ ev' = "langfail"

GetLanguagesFails ==
    /\ apc = "langs"
    /\ LangsFailure
    /\ rec' = NoRecord
    /\ UNCHANGED <<cfg, repoIter, commitIter, total_commits, tod, weekday,
                   lang_bytes, seen_shas, counted>>

\* A commit loop without its try/except: the exception leaves aggregate.
CommitsFailureEscapes(e) == /\ apc' = "raised"
                            /\ ev' = e

\* The except clause around the commit loop: the failure is logged, the
\* loop over the pages is abandoned and the next repository is taken.
CommitsFailure(e) == /\ apc' = "repos"
                     /\ ev' = e

FetchCommitPageFails ==
    /\ apc = "commits" /\ NeedsFetch(commitIter)
    /\ CommitsFailure("commitfail")
    /\ commitIter' = NewIter
    /\ rec' = NoRecord
    /\ UNCHANGED <<cfg, repoIter, total_commits, tod, weekday, lang_bytes, seen_shas, counted>>

\* Where the loops stand once the page is delivered or a record of it has
\* been handled: in the page, at the request for the next page, or at the
\* next repository.
LoopPos(it) ==
    IF it.left > 0 THEN "page" ELSE IF it.more THEN "commits" ELSE "repos"

\* The generator of a repository is dropped when its loop is left.
Leave(it) == IF LoopPos(it) = "repos" THEN NewIter ELSE it

FetchCommitPage ==
    /\ apc = "commits" /\ NeedsFetch(commitIter)
    /\ \E n \in PageLens(commitIter.page, MaxCommits) :
         LET it == AfterPage(commitIter, n) IN
         /\ commitIter' = Leave(it)
         /\ apc' = LoopPos(it)
    /\ ev' = "commitpage"
    /\ rec' = NoRecord
    /\ UNCHANGED <<cfg, repoIter, total_commits, tod, weekday, lang_bytes, seen_shas, counted>>

\* The record is skipped by one of the three continue statements.
Skips(c) ==
    \/ c.sha = NoSha
    \/ c.sha \in seen_shas
    \/ (cfg.exclude_merge_commits /\ is_merge_commit(c))
    \/ c.date.kind = "missing"

\* A loop that counts the record without recording its sha.
MarkSeenForgets(seen, sha) == seen

\* seen_shas.add(sha)
MarkSeen(seen, sha) == seen \cup {sha}

\* total_commits += 1; tod[...] += 1; weekday[...] += 1
CountCommit(c) ==
    LET local_dt == astimezone(c.date, cfg.timezone) IN
    /\ total_commits' = total_commits + 1
    /\ tod' = [tod EXCEPT ![bucket_time_of_day(local_dt)] = @ + 1]
    /\ weekday' = [weekday EXCEPT ![WEEKDAYS[local_dt.wd + 1]] = @ + 1]

\* The body of "for c in page" for the record c.
ProcessRecord(c) ==
    LET it == [commitIter EXCEPT !.left = @ - 1] IN
    IF Skips(c)
    THEN /\ commitIter' = Leave(it)
         /\ apc' = LoopPos(it)
         /\ ev' = IF c.sha \in seen_shas THEN "duplicate" ELSE "skipped"
         /\ UNCHANGED <<total_commits, tod, weekday, seen_shas, counted>>
    ELSE /\ seen_shas' = MarkSeen(seen_shas, c.sha)
         /\ IF c.date.kind = "malformed"
            THEN \* parse_utc_timestamp raises ValueError after the sha
                 \* was added; the except clause of the commit loop
                 \* catches it.
                 /\ CommitsFailure("baddate")
                 /\ commitIter' = NewIter
                 /\ UNCHANGED <<total_commits, tod, weekday, counted>>
            ELSE /\ CountCommit(c)
                 /\ counted' = [counted EXCEPT ![c.sha] = @ + 1]
                 /\ commitIter' = Leave(it)
                 /\ apc' = LoopPos(it)
                 /\ ev' = "counted"

\* One iteration of "for c in page".
ProcessCommit ==
    /\ apc = "page" /\ commitIter.left > 0
    /\ \E c \in CommitRecords : ProcessRecord(c)
    /\ rec' = NoRecord
    /\ UNCHANGED <<cfg, repoIter, lang_bytes>>

\* The same iteration, with the record it handled kept in the history.
ProcessCommitTraced ==
    /\ apc = "page" /\ commitIter.left > 0
    /\ \E c \in CommitRecords : ProcessRecord(c) /\ rec' = Handled(c, seen_shas)
    /\ UNCHANGED <<cfg, repoIter, lang_bytes>>

AggStep ==
    \/ IterReposFetchFails
    \/ IterReposFetch
    \/ AggReturn
    \/ TakeRepo
    \/ GetLanguagesOk
    \/ GetLanguagesFails
    \/ FetchCommitPageFails
    \/ FetchCommitPage
    \/ ProcessCommit

\* The readme variables while another component runs.
ReadmeIdle ==
    /\ readme = << >> /\ arg = << >> /\ upc = "done"
    /\ rets = << >> /\ hist = << >> /\ wrote = << >>

\* The client variables while another component runs.
None == -1            \* an Optional[int] that is None
NoRateLimit == [remaining |-> None, reset_epoch |-> None]
ClientIdle ==
    /\ cpc = "done" /\ page = 1 /\ data = [kind |-> "none", n |-> 0] /\ rl = NoRateLimit /\ now = 0
    /\ sent = << >> /\ sleeps = << >> /\ reqPages = << >> /\ results = << >>
    /\ yielded = << >>

\* The render_markdown variables while another component runs.
NoAllowlist == [none |-> TRUE, names |-> {}]
RenderIdle ==
    /\ rpc = "rendered" /\ lang_items = << >> /\ language_allowlist = NoAllowlist
    /\ lang_sorted = << >> /\ lang_counts = << >>

\* The timestamp variables while another component runs.
Midnight == [wd |-> 0, hour |-> 0, minute |-> 0]
BucketIdle ==
    /\ bpc = "bucketed" /\ utc_ts = Midnight /\ tz = 0 /\ local_ts = Midnight
    /\ bucket = "Night"

\* The render_cards variables while another component runs.
SeriesIdle == spc = "filled" /\ days = 0 /\ entries = << >> /\ filled = << >>
StreaksIdle == kpc = "computed" /\ points = << >> /\ streaks = <<0, 0, 0>>

AggNext == AggStep /\ UNCHANGED <<readmeVars, clientVars, seriesVars, streakVars, renderVars, bucketVars>>

\* aggregate with the handled records traced.
TracedStep ==
    \/ IterReposFetchFails
    \/ IterReposFetch
    \/ AggReturn
    \/ TakeRepo
    \/ GetLanguagesOk
    \/ GetLanguagesFails
    \/ FetchCommitPageFails
    \/ FetchCommitPage
    \/ ProcessCommitTraced

TracedNext ==
    TracedStep
    /\ UNCHANGED <<readmeVars, clientVars, seriesVars, streakVars, renderVars, bucketVars>>

AggStart ==
    AggInit /\ ReadmeIdle /\ ClientIdle /\ SeriesIdle /\ StreaksIdle /\ RenderIdle /\ BucketIdle

SpecAgg == AggStart /\ [][AggNext]_vars

SpecCommits == AggStart /\ [][TracedNext]_vars

\* =================================================================
\* utils.py, readme_updater.py
\* =================================================================
\* Text is a sequence of one-character strings.
NL == "\n"
BS == "\\"

\* The section markers.  main() uses "<!--START_SECTION:github_stats-->" and
\* "<!--END_SECTION:github_stats-->"; any two strings can be given.
StartMarker == <<"<">>
EndMarker == <<">">>

\* The literal pieces of the pattern: group 1 is start_marker "\n", group 3
\* is "\n" end_marker.
StartPat == StartMarker \o <<NL>>
EndPat == <<NL>> \o EndMarker

\* text[a..b], empty when a > b.
Slice(text, a, b) == IF a > b THEN << >> ELSE SubSeq(text, a, b)

\* pat occurs in text at position i.
IsAt(text, pat, i) ==
    /\ i >= 1
    /\ i + Len(pat) - 1 <= Len(text)
    /\ \A k \in 1..Len(pat) : text[i + k - 1] = pat[k]

\* The first position >= from where pat occurs in text, 0 when there is none.
FirstAt(text, pat, from) ==
    LET hits == {i \in from..Len(text) : IsAt(text, pat, i)} IN
    IF hits = {} THEN 0 ELSE CHOOSE i \in hits : \A j \in hits : i <= j

\* pattern.search(content): the leftmost start_marker "\n", then the
\* shortest content (re.DOTALL, non-greedy) up to a "\n" end_marker.  When
\* the leftmost start has no end after it, no later start has one either.
Search(content) ==
    LET i == FirstAt(content, StartPat, 1)
        j == IF i = 0 THEN 0 ELSE FirstAt(content, EndPat, i + Len(StartPat))
    IN  [found |-> i # 0 /\ j # 0, start |-> i, stop |-> j]

\* ---- the replacement template of re.sub
DigitVal == [c \in {"0", "1", "2", "3", "4", "5", "6", "7", "8", "9"} |->
               CASE c = "0" -> 0 [] c = "1" -> 1 [] c = "2" -> 2 [] c = "3" -> 3
                 [] c = "4" -> 4 [] c = "5" -> 5 [] c = "6" -> 6 [] c = "7" -> 7
                 [] c = "8" -> 8 [] c = "9" -> 9]
Digits == DOMAIN DigitVal
OctDigits == {"0", "1", "2", "3", "4", "5", "6", "7"}
AsciiLetters == {"x", "n", "I"}          \* the letters of the texts used here
\* chr() of an octal escape: "\111" is "I".
Chr(v) == IF v = 73 THEN "I" ELSE "?"

\* parse_template and the expansion of its result, from position k of the
\* template: a backslash and its next character are one token.  A digit
\* token is a group reference of one or two digits (three octal digits are
\* a character); "\\" is a backslash; "\n" a newline; another letter is a
\* bad escape; any other escaped character stays as written, backslash
\* included.  groups[i] is the text of group i.
RECURSIVE Expand(_, _, _)
Expand(tmpl, k, groups) ==
    IF k > Len(tmpl) THEN [ok |-> TRUE, text |-> << >>]
    ELSE IF tmpl[k] # BS
    THEN LET r == Expand(tmpl, k + 1, groups) IN
         [ok |-> r.ok, text |-> <<tmpl[k]>> \o r.text]
    ELSE IF k = Len(tmpl) THEN [ok |-> FALSE, text |-> << >>]
    ELSE LET c == tmpl[k + 1]
             d2 == k + 2 <= Len(tmpl) /\ tmpl[k + 2] \in Digits
             d3 == k + 3 <= Len(tmpl) /\ tmpl[k + 3] \in OctDigits
         IN
         IF c \in Digits \ {"0"}
         THEN IF d2 /\ c \in OctDigits /\ tmpl[k + 2] \in OctDigits /\ d3
              THEN LET v == 64 * DigitVal[c] + 8 * DigitVal[tmpl[k + 2]]
                            + DigitVal[tmpl[k + 3]]
                       r == Expand(tmpl, k + 4, groups)
                   IN  IF v > 255 THEN [ok |-> FALSE, text |-> << >>]
                       ELSE [ok |-> r.ok, text |-> <<Chr(v)>> \o r.text]
              ELSE LET index == IF d2 THEN 10 * DigitVal[c] + DigitVal[tmpl[k + 2]]
                                ELSE DigitVal[c]
                       r == Expand(tmpl, IF d2 THEN k + 3 ELSE k + 2, groups)
                   IN  IF index > Len(groups) THEN [ok |-> FALSE, text |-> << >>]
                       ELSE [ok |-> r.ok, text |-> groups[index] \o r.text]
         ELSE IF c = BS
         THEN LET r == Expand(tmpl, k + 2, groups) IN
              [ok |-> r.ok, text |-> <<BS>> \o r.text]
         ELSE IF c = "n"
         THEN LET r == Expand(tmpl, k + 2, groups) IN
              [ok |-> r.ok, text |-> <<NL>> \o r.text]
         ELSE IF c \in AsciiLetters THEN [ok |-> FALSE, text |-> << >>]
         ELSE LET r == Expand(tmpl, k + 2, groups) IN
              [ok |-> r.ok, text |-> <<BS, c>> \o r.text]

\* rf"\1{new_inner}\3"
Template(new_inner) == <<BS, "1">> \o new_inner \o <<BS, "3">>

\* A replace that leaves a document without the markers as it is.
ReplaceLenient(content, new_inner) ==
    LET m == Search(content)
        e == Expand(Template(new_inner), 1,
                    <<StartPat,
                      Slice(content, m.start + Len(StartPat), m.stop - 1),
                      EndPat>>)
    IN  IF ~m.found THEN [kind |-> "ok", text |-> content]
        ELSE IF ~e.ok THEN [kind |-> "re.error", text |-> content]
        ELSE [kind |-> "ok",
              text |-> Slice(content, 1, m.start - 1) \o e.text
                       \o Slice(content, m.stop + Len(EndPat), Len(content))]

\* ReadmeSection.replace: ValueError when the pattern does not match, else
\* pattern.sub(template, content, count=1), which raises re.error on a bad
\* template.
replace(content, new_inner) ==
    LET m == Search(content)
        e == Expand(Template(new_inner), 1,
                    <<StartPat,
                      Slice(content, m.start + Len(StartPat), m.stop - 1),
                      EndPat>>)
    IN  IF ~m.found THEN [kind |-> "ValueError", text |-> content]
        ELSE IF ~e.ok THEN [kind |-> "re.error", text |-> content]
        ELSE [kind |-> "ok",
              text |-> Slice(content, 1, m.start - 1) \o e.text
                       \o Slice(content, m.stop + Len(EndPat), Len(content))]

\* new_inner_markdown.rstrip("\n")
RECURSIVE rstrip(_)
rstrip(text) ==
    IF text # << >> /\ text[Len(text)] = NL
    THEN rstrip(Slice(text, 1, Len(text) - 1)) ELSE text

\* ---- the inputs
MaxDocLen == 4        \* longest document made of arbitrary characters
MaxArgLen == 2        \* longest new inner text
DocChars == {"<", ">", NL, "x"}
ArgChars == {">", NL, "x", BS, "1"}
SeqsUpTo(S, n) == UNION {[1..k -> S] : k \in 0..n}
Pieces == {<< >>, <<"x">>}
Section(inner) == StartPat \o inner \o EndPat
\* Documents with two marker pairs, and text before, between and after them.
TwoPairDocs ==
    {pre \o Section(c1) \o mid \o Section(c2) \o post :
        pre \in Pieces, c1 \in Pieces, mid \in Pieces, c2 \in Pieces, post \in Pieces}
Docs == SeqsUpTo(DocChars, MaxDocLen) \cup TwoPairDocs
Args == SeqsUpTo(ArgChars, MaxArgLen)

ReadmeInit ==
    /\ readme \in Docs
    /\ arg \in Args
    /\ upc = "first"
    /\ rets = << >>
    /\ hist = << >>
    /\ wrote = << >>

\* ReadmeUpdater.update_section(arg): read the file, replace, return False
\* without writing when nothing changed, else write and return True.  An
\* exception of replace propagates before anything is written.
update_section(next) ==
    LET content == readme
        updated == replace(content, rstrip(arg))
    IN  /\ hist' = Append(hist, content)
        /\ upc' = next
        /\ IF updated.kind # "ok"
           THEN /\ rets' = Append(rets, updated.kind)
                /\ wrote' = Append(wrote, FALSE)
                /\ readme' = readme
           ELSE IF updated.text = content
           THEN /\ rets' = Append(rets, "False")
                /\ wrote' = Append(wrote, FALSE)
                /\ readme' = readme
           ELSE /\ rets' = Append(rets, "True")
                /\ wrote' = Append(wrote, TRUE)
                /\ readme' = updated.text
        /\ UNCHANGED arg

FirstUpdate == upc = "first" /\ update_section("second")
SecondUpdate == upc = "second" /\ update_section("done")

AggIdle ==
    /\ cfg = [exclude_forks |-> FALSE, exclude_merge_commits |-> FALSE, timezone |-> 0]
    /\ apc = "returned"
    /\ repoIter = NewIter
    /\ commitIter = NewIter
    /\ total_commits = 0
    /\ tod = ZeroTod
    /\ weekday = ZeroWeekday
    /\ lang_bytes = << >>
    /\ seen_shas = {}
    /\ counted = [s \in Shas |-> 0]
    /\ ev = "start"
    /\ rec = NoRecord

ReadmeNext ==
    \/ FirstUpdate /\ UNCHANGED <<aggVars, clientVars, seriesVars, streakVars, renderVars, bucketVars>>
    \/ SecondUpdate /\ UNCHANGED <<aggVars, clientVars, seriesVars, streakVars, renderVars, bucketVars>>

ReadmeStart ==
    ReadmeInit /\ AggIdle /\ ClientIdle /\ SeriesIdle /\ StreaksIdle /\ RenderIdle /\ BucketIdle

SpecReadme == ReadmeStart /\ [][ReadmeNext]_vars

\* =================================================================
\* github_client.py
\* =================================================================
\* ---- the inputs: what the server can answer
Statuses == {200, 403, 500}
Remainings == {None, 0, 1, 5}            \* X-RateLimit-Remaining, None when absent or no number
ResetEpochs == {None, 3, 400}            \* X-RateLimit-Reset, None when absent or no number
\* The body of a response: a JSON list of n records, a JSON value that is
\* not a list, or a body that is no JSON.
Bodies(p) == {[kind |-> "list", n |-> n] : n \in PageLens(p, MaxCommits)}
             \cup {[kind |-> "dict", n |-> 0], [kind |-> "nojson", n |-> 0]}
Responses(p) ==
    [status : Statuses, remaining : Remainings, reset_epoch : ResetEpochs, body : Bodies(p)]

\* _parse_rate_limit
_parse_rate_limit(resp) == [remaining |-> resp.remaining, reset_epoch |-> resp.reset_epoch]

\* The header fields of a response, as kept in the history.
Headers(resp) == [status |-> resp.status, remaining |-> resp.remaining,
               reset_epoch |-> resp.reset_epoch]

\* _maybe_sleep_for_rate_limit(r, threshold): the seconds it sleeps, -1 when
\* it returns without sleeping.
_maybe_sleep_for_rate_limit(r, threshold, t) ==
    IF r.remaining = None \/ r.reset_epoch = None THEN -1
    ELSE IF r.remaining > threshold THEN -1
    ELSE Min(Max(0, r.reset_epoch - t) + 2, 60 * 5)

\* time.sleep(d), when it is called at all.
Slept(log, at, d) == IF d < 0 THEN log ELSE Append(log, [at |-> at, secs |-> d])
Later(t, d) == IF d < 0 THEN t ELSE t + d

\* The first response asks for the retry.
QuotaExhausted(resp, r) == resp.status = 403 /\ r.remaining = 0

\* paginate takes what request() returned: a list that is not empty is
\* yielded, anything else ends the generator.
Deliver(body) ==
    /\ data' = body
    /\ results' = Append(results, body)
    /\ IF body.kind = "list" /\ body.n > 0
       THEN cpc' = "yielded" /\ yielded' = Append(yielded, body.n)
       ELSE cpc' = "done" /\ UNCHANGED yielded

\* request() raises: the exception passes through paginate.
Raise(what) ==
    /\ results' = Append(results, [kind |-> what, n |-> 0])
    /\ cpc' = "raised"
    /\ UNCHANGED <<data, yielded>>

\* The end of request(): raise_for_status, the back-off sleep decided on
\* rl, then resp.json().
Finish(resp, r, log) ==
    IF resp.status >= 400
    THEN Raise("HTTPError") /\ sleeps' = log /\ UNCHANGED now
    ELSE LET d == _maybe_sleep_for_rate_limit(r, 1, now) IN
         /\ sleeps' = Slept(log, "return", d)
         /\ now' = Later(now, d)
         /\ IF resp.body.kind = "nojson" THEN Raise("JSONError") ELSE Deliver(resp.body)

ClientInit ==
    /\ cpc = "call" /\ page = 1 /\ data = [kind |-> "none", n |-> 0] /\ rl = NoRateLimit /\ now = 0
    /\ sent = << >> /\ sleeps = << >> /\ reqPages = << >> /\ results = << >>
    /\ yielded = << >>

\* paginate calls request() for the page; the first send fails in transport.
RequestSendFails ==
    /\ cpc = "call"
    /\ reqPages' = Append(reqPages, page)
    /\ sent' = << >>
    /\ sleeps' = << >>
    /\ Raise("TransportError")
    /\ UNCHANGED <<page, rl, now>>

\* paginate calls request() for the page: the first send, the parse of its
\* rate-limit headers and, for an exhausted quota, the wait before the retry.
RequestSend ==
    /\ cpc = "call"
    /\ reqPages' = Append(reqPages, page)
    /\ \E resp \in Responses(page) :
         LET r == _parse_rate_limit(resp) IN
         /\ rl' = r
         /\ sent' = <<Headers(resp)>>
         /\ IF QuotaExhausted(resp, r)
            THEN LET d == _maybe_sleep_for_rate_limit(r, 0, now) IN
                 /\ sleeps' = Slept(<< >>, "retry", d)
                 /\ now' = Later(now, d)
                 /\ cpc' = "retry"
                 /\ UNCHANGED <<data, results, yielded>>
            ELSE Finish(resp, r, << >>)
    /\ UNCHANGED page

\* The second send of the same request() call fails in transport.
RequestRetryFails ==
    /\ cpc = "retry"
    /\ Raise("TransportError")
    /\ UNCHANGED <<page, rl, now, sent, sleeps, reqPages>>

\* The second send of the same request() call, and the end of the call.
\* rl is still the one parsed from the first response.
RequestRetry ==
    /\ cpc = "retry"
    /\ \E resp \in Responses(page) :
         /\ sent' = Append(sent, Headers(resp))
         /\ Finish(resp, rl, sleeps)
    /\ UNCHANGED <<page, rl, reqPages>>

\* A paginate without "if len(data) < per_page: break".
PaginateResumeNoShortPage ==
    /\ cpc = "yielded"
    /\ cpc' = "call" /\ page' = page + 1
    /\ UNCHANGED <<data, rl, now, sent, sleeps, reqPages, results, yielded>>

\* The consumer asks for the next page: after a short page the generator
\* ends, after a full one it moves to the next page number.
PaginateResume ==
    /\ cpc = "yielded"
    /\ IF data.n < PerPage
       THEN cpc' = "done" /\ UNCHANGED page
       ELSE cpc' = "call" /\ page' = page + 1
    /\ UNCHANGED <<data, rl, now, sent, sleeps, reqPages, results, yielded>>

ClientNext ==
    \/ RequestSendFails /\ UNCHANGED <<aggVars, readmeVars, seriesVars, streakVars, renderVars, bucketVars>>
    \/ RequestSend /\ UNCHANGED <<aggVars, readmeVars, seriesVars, streakVars, renderVars, bucketVars>>
    \/ RequestRetryFails /\ UNCHANGED <<aggVars, readmeVars, seriesVars, streakVars, renderVars, bucketVars>>
    \/ RequestRetry /\ UNCHANGED <<aggVars, readmeVars, seriesVars, streakVars, renderVars, bucketVars>>
    \/ PaginateResume /\ UNCHANGED <<aggVars, readmeVars, seriesVars, streakVars, renderVars, bucketVars>>

ClientStart ==
    ClientInit /\ AggIdle /\ ReadmeIdle /\ SeriesIdle /\ StreaksIdle /\ RenderIdle /\ BucketIdle

SpecClient == ClientStart /\ [][ClientNext]_vars

\* =================================================================
\* render_cards.py
\* =================================================================
MaxDays == 3          \* largest days argument
MaxPoints == 3        \* most contributionDays the calendar holds
MaxSeries == 6        \* longest series given to compute_streaks

\* Calendar days are numbered; today is day MaxDays, so that every window
\* starts at day 1 or later and days 0 and MaxDays + 1 lie outside it.
today == MaxDays
CalendarDays == 0..(MaxDays + 1)
Counts == {0, 1, 2}
NoDate == None                           \* d.get("date") is None or ""
DayPoint(d, c) == [day |-> d, count |-> c]
Entries == {DayPoint(d, c) : d \in CalendarDays \cup {NoDate}, c \in Counts}

\* The loops over weeks and contributionDays: entries without a date are
\* skipped, the others appended in order.
RECURSIVE Collect(_)
Collect(es) ==
    IF es = << >> THEN << >>
    ELSE IF es[1].day = NoDate THEN Collect(Tail(es))
    ELSE <<es[1]>> \o Collect(Tail(es))

\* points.sort(key=lambda p: p.day): a stable sort by day.
RECURSIVE InsertByDay(_, _)
InsertByDay(sorted, p) ==
    IF sorted = << >> THEN <<p>>
    ELSE IF sorted[Len(sorted)].day <= p.day THEN Append(sorted, p)
    ELSE Append(InsertByDay(SubSeq(sorted, 1, Len(sorted) - 1), p), sorted[Len(sorted)])

RECURSIVE SortByDay(_)
SortByDay(ps) ==
    IF ps = << >> THEN << >>
    ELSE InsertByDay(SortByDay(SubSeq(ps, 1, Len(ps) - 1)), ps[Len(ps)])

\* wanted = [p for p in points if from_day <= p.day <= today]
InWindow(p, from_day) == from_day <= p.day /\ p.day <= today
Wanted(ps, from_day) == SelectSeq(ps, LAMBDA p : InWindow(p, from_day))

\* The while loop: the day cur takes the next wanted point when that point
\* is of day cur, and a zero point otherwise.
RECURSIVE Fill(_, _, _)
Fill(wanted, idx, cur) ==
    IF cur > today THEN << >>
    ELSE IF idx <= Len(wanted) /\ wanted[idx].day = cur
         THEN <<wanted[idx]>> \o Fill(wanted, idx + 1, cur + 1)
         ELSE <<DayPoint(cur, 0)>> \o Fill(wanted, idx, cur + 1)

SeriesInit ==
    /\ spc = "fetch"
    /\ days \in 0..MaxDays
    /\ entries \in SeqsUpTo(Entries, MaxPoints)
    /\ filled = << >>

\* fetch_daily_contributions, from the calendar the query returned.
FetchDaily ==
    /\ spc = "fetch"
    /\ LET from_day == today - (days - 1)
           wanted == Wanted(SortByDay(Collect(entries)), from_day)
       IN  filled' = Fill(wanted, 1, from_day)
    /\ spc' = "filled"
    /\ UNCHANGED <<days, entries>>

SeriesNext ==
    FetchDaily /\ UNCHANGED <<aggVars, readmeVars, clientVars, streakVars, renderVars, bucketVars>>

SeriesStart ==
    SeriesInit /\ AggIdle /\ ReadmeIdle /\ ClientIdle /\ StreaksIdle /\ RenderIdle /\ BucketIdle

SpecSeries == SeriesStart /\ [][SeriesNext]_vars

\* ---- compute_streaks
\* sum(p.count for p in points)
RECURSIVE SumCounts(_)
SumCounts(ps) == IF ps = << >> THEN 0 ELSE ps[1].count + SumCounts(Tail(ps))

\* A loop that never resets run.
RECURSIVE LongestLoopNoReset(_, _, _, _)
LongestLoopNoReset(ps, i, run, longest) ==
    IF i > Len(ps) THEN longest
    ELSE IF ps[i].count > 0
         THEN LongestLoopNoReset(ps, i + 1, run + 1,
                                 IF run + 1 > longest THEN run + 1 ELSE longest)
         ELSE LongestLoopNoReset(ps, i + 1, run, longest)

\* The first loop: run counts the days with count > 0 since the last day
\* without, longest is the largest run seen.
RECURSIVE LongestLoop(_, _, _, _)
LongestLoop(ps, i, run, longest) ==
    IF i > Len(ps) THEN longest
    ELSE IF ps[i].count > 0
         THEN LongestLoop(ps, i + 1, run + 1,
                          IF run + 1 > longest THEN run + 1 ELSE longest)
         ELSE LongestLoop(ps, i + 1, 0, longest)

\* The second loop, over reversed(points), with its break.
RECURSIVE CurrentLoop(_, _, _)
CurrentLoop(ps, i, current) ==
    IF i < 1 THEN current
    ELSE IF ps[i].count > 0 THEN CurrentLoop(ps, i - 1, current + 1)
    ELSE current

\* compute_streaks returns (total, current, longest).
compute_streaks(ps) ==
    IF ps = << >> THEN <<0, 0, 0>>
    ELSE <<SumCounts(ps), CurrentLoop(ps, Len(ps), 0), LongestLoop(ps, 1, 0, 0)>>

\* A series of consecutive days with the given counts.
SeriesOf(cs) == [i \in 1..Len(cs) |-> DayPoint(i, cs[i])]

StreaksInit ==
    /\ kpc = "compute"
    /\ points \in {SeriesOf(cs) : cs \in SeqsUpTo(Counts, MaxSeries)}
    /\ streaks = <<0, 0, 0>>

ComputeStreaks ==
    /\ kpc = "compute"
    /\ streaks' = compute_streaks(points)
    /\ kpc' = "computed"
    /\ UNCHANGED points

StreaksNext ==
    ComputeStreaks /\ UNCHANGED <<aggVars, readmeVars, clientVars, seriesVars, renderVars, bucketVars>>

StreaksStart ==
    StreaksInit /\ AggIdle /\ ReadmeIdle /\ ClientIdle /\ SeriesIdle /\ RenderIdle /\ BucketIdle

SpecStreaks == StreaksStart /\ [][StreaksNext]_vars

\* =================================================================
\* analytics.py: render_markdown, the language rows
\* =================================================================
MaxLangs == 11        \* most languages in the byte map
TopLanguages == 8     \* len(lang_sorted) > 8: the rows kept when the rest is folded

\* A language name is a sequence of pieces; the piece " " is white space.
Padded(name) == <<" ">> \o name
Other == <<"Other">>

\* name.strip()
RECURSIVE lstrip(_)
lstrip(name) ==
    IF name # << >> /\ name[1] = " " THEN lstrip(Tail(name)) ELSE name

RECURSIVE rstripSpace(_)
rstripSpace(name) ==
    IF name # << >> /\ name[Len(name)] = " "
    THEN rstripSpace(SubSeq(name, 1, Len(name) - 1)) ELSE name

normalize_lang(name) == rstripSpace(lstrip(name))

\* allow_map, and allow_map.get(lang_norm, lang_norm)
allow_map ==
    [n \in { <<"C++">>, <<"C">>, <<"Python">>, <<"Java">>, <<"TypeScript">>,
             <<"JavaScript">>, <<"Dart">>, <<"SQL">> } |-> n]
Display(lang_norm) ==
    IF lang_norm \in DOMAIN allow_map THEN allow_map[lang_norm] ELSE lang_norm

\* allow = set(normalize_lang(x) for x in language_allowlist)
\*         if language_allowlist else None
Allow(al) ==
    IF al.none \/ al.names = {} THEN NoAllowlist
    ELSE [none |-> FALSE, names |-> {normalize_lang(x) : x \in al.names}]

\* ---- the inputs
\* The keys of the byte map, in the order the dict holds them.
LangOrder ==
    << <<"Python">>, Padded(<<"Python">>), <<"C">>, <<"C++">>, <<"Java">>,
       <<"TypeScript">>, <<"JavaScript">>, <<"Dart">>, <<"SQL">>, <<"Go">>,
       <<"Rust">>, <<"Kotlin">>, <<"Swift">> >>
ByteCounts == {1, 2}
Row(lang, b) == [lang |-> lang, b |-> b]
ByteMaps ==
    UNION {{[i \in 1..k |-> Row(LangOrder[i], bs[i])] : bs \in [1..k -> ByteCounts]} :
              k \in 0..Min(MaxLangs, Len(LangOrder))}
Allowlists ==
    {NoAllowlist,
     [none |-> FALSE, names |-> {}],
     [none |-> FALSE, names |-> {<<"Python">>, Padded(<<"C">>)}],
     [none |-> FALSE, names |-> DOMAIN allow_map]}

\* filtered_bytes[display] += int(b), on a dict that keeps insertion order
AddBytes(rows, lang, b) ==
    IF \E i \in 1..Len(rows) : rows[i].lang = lang
    THEN [i \in 1..Len(rows) |->
            IF rows[i].lang = lang THEN Row(lang, rows[i].b + b) ELSE rows[i]]
    ELSE Append(rows, Row(lang, b))

\* for lang, b in lang_bytes.items(): languages outside the allow-list go
\* to other_bytes, the others to filtered_bytes under their display name.
RECURSIVE FilterLoop(_, _, _, _, _)
FilterLoop(items, i, allow, filtered_bytes, other_bytes) ==
    IF i > Len(items)
    THEN [filtered_bytes |-> filtered_bytes, other_bytes |-> other_bytes]
    ELSE LET display == Display(normalize_lang(items[i].lang)) IN
         IF ~allow.none /\ display \notin allow.names
         THEN FilterLoop(items, i + 1, allow, filtered_bytes, other_bytes + items[i].b)
         ELSE FilterLoop(items, i + 1, allow,
                         AddBytes(filtered_bytes, display, items[i].b), other_bytes)

\* if other_bytes > 0: filtered_bytes["Other"] += other_bytes
WithOther(f) ==
    IF f.other_bytes > 0 THEN AddBytes(f.filtered_bytes, Other, f.other_bytes)
    ELSE f.filtered_bytes

\* sorted(..., key=lambda x: x[1], reverse=True): a stable sort, so rows
\* with equal bytes keep their order.
RECURSIVE InsertByBytes(_, _)
InsertByBytes(sorted, r) ==
    IF sorted = << >> THEN <<r>>
    ELSE IF sorted[Len(sorted)].b >= r.b THEN Append(sorted, r)
    ELSE Append(InsertByBytes(SubSeq(sorted, 1, Len(sorted) - 1), r), sorted[Len(sorted)])

RECURSIVE SortByBytes(_)
SortByBytes(rows) ==
    IF rows = << >> THEN << >>
    ELSE InsertByBytes(SortByBytes(SubSeq(rows, 1, Len(rows) - 1)), rows[Len(rows)])

\* sum(b for _, b in rows)
RECURSIVE SumBytes(_)
SumBytes(rows) == IF rows = << >> THEN 0 ELSE rows[1].b + SumBytes(Tail(rows))

\* if len(lang_sorted) > 8: top 8 plus ("Other", sum of the rest)
FoldTail(sorted) ==
    IF Len(sorted) > TopLanguages
    THEN SubSeq(sorted, 1, TopLanguages)
         \o <<Row(Other, SumBytes(SubSeq(sorted, TopLanguages + 1, Len(sorted))))>>
    ELSE sorted

\* lang_counts = {lang: int(b) for lang, b in lang_sorted}: for a name that
\* occurs twice the later row's bytes stay.
CountIn(rows, lang) ==
    LET at == {i \in 1..Len(rows) : rows[i].lang = lang}
        last == CHOOSE i \in at : \A j \in at : j <= i
    IN  rows[last].b

\* The rows of the bar table: one per entry of lang_sorted, each with
\* lang_counts.get(label, 0).
Displayed(rows) == [i \in 1..Len(rows) |-> Row(rows[i].lang, CountIn(rows, rows[i].lang))]

RenderInit ==
    /\ rpc = "render"
    /\ lang_items \in ByteMaps
    /\ language_allowlist \in Allowlists
    /\ lang_sorted = << >>
    /\ lang_counts = << >>

\* render_markdown, as far as the language rows go.
RenderLanguages ==
    /\ rpc = "render"
    /\ LET f == FilterLoop(lang_items, 1, Allow(language_allowlist), << >>, 0)
           rows == FoldTail(SortByBytes(WithOther(f)))
       IN  /\ lang_sorted' = rows
           /\ lang_counts' = Displayed(rows)
    /\ rpc' = "rendered"
    /\ UNCHANGED <<lang_items, language_allowlist>>

RenderNext ==
    RenderLanguages
    /\ UNCHANGED <<aggVars, bucketVars, readmeVars, clientVars, seriesVars, streakVars>>

RenderStart ==
    RenderInit /\ AggIdle /\ BucketIdle /\ ReadmeIdle /\ ClientIdle /\ SeriesIdle
    /\ StreaksIdle

SpecRender == RenderStart /\ [][RenderNext]_vars

\* =================================================================
\* analytics.py: the time-of-day bucket of one commit timestamp
\* =================================================================
\* ---- the inputs: every hour of the day, minutes at both ends of the hour
\* and in its middle, zones behind and ahead of UTC, whole hours or not.
StampWeekdays == {0, 6}
StampMinutes == {0, 30, 59}
ZoneOffsets == {-480, 0, 330, 540}
Stamps == [wd : StampWeekdays, hour : 0..23, minute : StampMinutes]

BucketInit ==
    /\ bpc = "convert"
    /\ utc_ts \in Stamps
    /\ tz \in ZoneOffsets
    /\ local_ts = Midnight
    /\ bucket = "Night"

\* local_dt = utc_dt.astimezone(tz); tod[bucket_time_of_day(local_dt)] += 1
BucketCommit ==
    /\ bpc = "convert"
    /\ local_ts' = astimezone(utc_ts, tz)
    /\ bucket' = bucket_time_of_day(astimezone(utc_ts, tz))
    /\ bpc' = "bucketed"
    /\ UNCHANGED <<utc_ts, tz>>

BucketNext ==
    BucketCommit
    /\ UNCHANGED <<aggVars, renderVars, readmeVars, clientVars, seriesVars, streakVars>>

BucketStart ==
    BucketInit /\ AggIdle /\ RenderIdle /\ ReadmeIdle /\ ClientIdle /\ SeriesIdle
    /\ StreaksIdle

SpecBuckets == BucketStart /\ [][BucketNext]_vars

\* =================================================================
\* analytics.py: main, from aggregate to the update of the document
\* =================================================================
\* new_md, the text render_markdown returns: it holds no marker and no
\* backslash.
RenderedText == <<"x">>

\* The documents main can find at the readme path: without the markers,
\* with an empty section, and with the section already holding new_md.
MainDocs == {<<"x">>, Section(<< >>), Section(RenderedText)}

MainReadmeInit ==
    /\ readme \in MainDocs
    /\ arg = RenderedText
    /\ upc = "main"
    /\ rets = << >>
    /\ hist = << >>
    /\ wrote = << >>

\* A main that updates the document without waiting for aggregate to return.
UpdateWithoutAggregate == upc = "main" /\ update_section("done")

\* changed = updater.update_section(new_md), which main reaches only when
\* aggregate has returned.
MainUpdateReadme == apc = "returned" /\ upc = "main" /\ update_section("done")

MainNext ==
    \/ AggStep
       /\ UNCHANGED <<readmeVars, renderVars, bucketVars, clientVars, seriesVars, streakVars>>
    \/ MainUpdateReadme
       /\ UNCHANGED <<aggVars, renderVars, bucketVars, clientVars, seriesVars, streakVars>>

MainStart ==
    AggInit /\ MainReadmeInit /\ RenderIdle /\ BucketIdle /\ ClientIdle /\ SeriesIdle
    /\ StreaksIdle

SpecMain == MainStart /\ [][MainNext]_vars

\* ------------------------------------------------------------------
\* Claims about aggregate
\* ------------------------------------------------------------------
RECURSIVE SumOver(_, _)
SumOver(f, S) ==
    IF S = {} THEN 0
    ELSE LET x == CHOOSE y \in S : TRUE IN f[x] + SumOver(f, S \ {x})

SumTod == SumOver(tod, BucketNames)
SumWeekday == SumOver(weekday, WeekdayNames)

\* C1: after each processed commit record and at return, total_commits
\* equals the sum of the four time-of-day counts, the sum of the seven
\* weekday counts, and the size of the seen-sha set.
C1_TotalsAgree ==
    /\ total_commits = SumTod
    /\ total_commits = SumWeekday
    /\ total_commits = Cardinality(seen_shas)

\* The part of C1 that the code keeps: the three counters agree (the seen
\* set is left out).
CountersAgree ==
    /\ total_commits = SumTod
    /\ total_commits = SumWeekday
    /\ total_commits <= Cardinality(seen_shas)

\* C2: a sha is counted at most once however often it is returned: every
\* counted sha is in the one seen set of the run, no sha is counted twice,
\* and total_commits is the number of counted shas.
C2_CountedOnce ==
    /\ \A s \in Shas : counted[s] <= 1 /\ (counted[s] = 1 => s \in seen_shas)
    /\ total_commits = SumOver(counted, Shas)

\* A record whose sha was counted before has just been skipped as a duplicate.
C2_Witness ==
    /\ ev = "duplicate"
    /\ \E s \in Shas : counted[s] = 1

\* C3: a failure of get_languages or list_commits for one repository never
\* aborts the run: the step that catches it leaves every count and the
\* language bytes as they were and goes on (to the commits of the repository
\* after a language failure, to the next repository after a commit failure)
\* with the repository list untouched; the only exception that leaves
\* aggregate is a failure of the repository list itself.
C3_Kept ==
    /\ total_commits' = total_commits
    /\ tod' = tod
    /\ weekday' = weekday
    /\ lang_bytes' = lang_bytes
    /\ seen_shas' = seen_shas
    /\ repoIter' = repoIter

C3_FailuresIsolated ==
    /\ [][(ev' = "langfail" => C3_Kept /\ apc' = "commits")
          /\ (ev' = "commitfail" => C3_Kept /\ apc' = "repos")]_vars
    /\ [](apc = "raised" => ev = "listfail")

\* A commit fetch has just failed after commits and language bytes were
\* counted, and another repository is still waiting in the page.
C3_Witness ==
    /\ ev = "commitfail"
    /\ apc = "repos"
    /\ total_commits > 0
    /\ lang_bytes # << >>
    /\ repoIter.left > 0

\* The last step was an iteration of "for c in page".
LoopEvents == {"counted", "skipped", "duplicate", "baddate"}

\* The record is a merge commit in the words of the specification.
MergeRecord(r) == r.msgMerge \/ r.nparents > 1

NothingCounted ==
    /\ total_commits' = total_commits
    /\ tod' = tod
    /\ weekday' = weekday
    /\ counted' = counted
    /\ seen_shas' = seen_shas

OneCounted ==
    /\ ev' = "counted"
    /\ total_commits' = total_commits + 1
    /\ Cardinality(seen_shas') = Cardinality(seen_shas) + 1

\* C12: in every iteration of the commit loop, a merge commit (message
\* beginning with "Merge ", or more than one parent, either alone) is not
\* counted and not marked seen when exclude_merge_commits is set; when the
\* flag is not set, a record that passes the other checks is counted whether
\* it is a merge commit or not; and a record that is no merge commit and
\* passes the other checks is counted whatever the flag.
C12_MergeExclusion ==
    [][ev' \in LoopEvents =>
          /\ (cfg.exclude_merge_commits /\ MergeRecord(rec')) => NothingCounted
          /\ (~cfg.exclude_merge_commits /\ rec'.eligible) => OneCounted
          /\ (~MergeRecord(rec') /\ rec'.eligible) => OneCounted]_vars

\* With the flag set, a record with two parents and an ordinary message,
\* which would have been counted otherwise, has just been skipped.
C12_Witness ==
    /\ cfg.exclude_merge_commits
    /\ ev = "skipped"
    /\ rec.eligible /\ rec.nparents = 2 /\ ~rec.msgMerge

\* ------------------------------------------------------------------
\* Claims about main
\* ------------------------------------------------------------------
\* C15: a failure of a request for the repository list, whichever page,
\* leaves aggregate as an exception; nothing runs after it, so the document
\* is neither read nor written in that run; and in every run the document
\* is written at most once, by a single update_section call made after
\* aggregate returned.
C15_ListFailureAborts ==
    /\ [][ev' = "listfail" => apc' = "raised"]_vars
    /\ [][apc # "raised"]_vars
    /\ [](apc = "raised" => rets = << >> /\ hist = << >> /\ wrote = << >>)
    /\ [][readme' # readme => apc = "returned" /\ wrote = << >>]_vars
    /\ [](Len(wrote) <= 1 /\ (wrote # << >> => apc = "returned"))

\* The request for the second page of the repository list failed after
\* commits of the first page's repositories were counted; the document,
\* which holds the markers, was not touched.
C15_Witness ==
    /\ apc = "raised"
    /\ ev = "listfail"
    /\ repoIter.page = 2
    /\ total_commits > 0
    /\ Search(readme).found
    /\ wrote = << >>

\* A run that went through: aggregate returned and the document was
\* written, once.
MainWroteOnce ==
    /\ apc = "returned"
    /\ wrote = <<TRUE>>
    /\ readme = Section(RenderedText)

\* ------------------------------------------------------------------
\* Claims about render_markdown
\* ------------------------------------------------------------------
\* Where the byte map first holds a language shown under the name; past the
\* end of the map for the synthetic "Other" row.
Encounter(name) ==
    LET at == {i \in 1..Len(lang_items) : Display(normalize_lang(lang_items[i].lang)) = name}
    IN  IF at = {} THEN Len(lang_items) + 1 ELSE CHOOSE i \in at : \A j \in at : i <= j

\* The rows before the folded tail.
TopRows == 1..Min(Len(lang_sorted), TopLanguages)

RowsDescend ==
    \A i \in TopRows : \A j \in TopRows :
        i < j => \/ lang_sorted[i].b > lang_sorted[j].b
                 \/ /\ lang_sorted[i].b = lang_sorted[j].b
                    /\ Encounter(lang_sorted[i].lang) <= Encounter(lang_sorted[j].lang)

OthersIn(rows) == {i \in 1..Len(rows) : rows[i].lang = Other}

\* C11: once the language rows are rendered, the rows before the folded
\* tail are in descending order of bytes with ties in encounter order; there
\* are at most 8 rows and one "Other" row after them; at most one row is
\* named "Other"; and the bytes of the displayed rows sum to the total of the
\* input byte map.
C11_LanguageRows ==
    rpc = "rendered" =>
        /\ RowsDescend
        /\ Len(lang_sorted) <= TopLanguages + 1
        /\ Len(lang_sorted) = TopLanguages + 1 => lang_sorted[TopLanguages + 1].lang = Other
        /\ Cardinality(OthersIn(lang_counts)) <= 1
        /\ SumBytes(lang_counts) = SumBytes(lang_items)

\* The part of C11 that the code keeps: the order of the top rows, the
\* number of rows, and the byte total of lang_sorted (before the rows are
\* put into the lang_counts dict).
RowsKeepOrderAndBytes ==
    rpc = "rendered" =>
        /\ RowsDescend
        /\ Len(lang_sorted) <= TopLanguages + 1
        /\ Len(lang_sorted) = TopLanguages + 1 => lang_sorted[TopLanguages + 1].lang = Other
        /\ SumBytes(lang_sorted) = SumBytes(lang_items)

\* Without an allow-list every part of C11 holds.
LanguageRowsWithoutAllowlist ==
    Allow(language_allowlist).none => C11_LanguageRows

\* ------------------------------------------------------------------
\* Claims about bucket_time_of_day
\* ------------------------------------------------------------------
\* The hour on the wall clock of the zone, from the minutes since the
\* Monday midnight (UTC) of the week before the timestamp's.
WallHour(ts, off) ==
    (((7 + ts.wd) * MinutesPerDay + ts.hour * 60 + ts.minute + off) \div 60) % 24

\* The bucket the specification gives an hour.
BucketOfHour(h) ==
    IF h \in 6..11 THEN "Morning"
    ELSE IF h \in 12..17 THEN "Day"
    ELSE IF h \in 18..21 THEN "Evening"
    ELSE "Night"

\* The entries of TIME_BUCKETS whose range, half open and wrapping past
\* midnight when start > end, holds the hour.
BucketsHolding(h) ==
    {i \in 1..Len(TIME_BUCKETS) :
        LET b == TIME_BUCKETS[i] IN
        IF b.start < b.end THEN b.start <= h /\ h < b.end
        ELSE h >= b.start \/ h < b.end}

\* C13: the bucket counted for a timestamp is the one of the hour on the
\* wall clock of the configured zone (not of the UTC hour): 6..11 Morning,
\* 12..17 Day, 18..21 Evening, 22, 23 and 0..5 Night; exactly one entry of
\* TIME_BUCKETS holds that hour.  The timestamps and zones tried put every
\* hour 0..23 on the wall clock, so 5 is Night, 6 Morning, 21 Evening and
\* 22 Night.
C13_Buckets ==
    bpc = "bucketed" =>
        LET h == WallHour(utc_ts, tz) IN
        /\ local_ts.hour = h
        /\ bucket = BucketOfHour(h)
        /\ Cardinality(BucketsHolding(h)) = 1
        /\ \A i \in BucketsHolding(h) : TIME_BUCKETS[i].name = bucket
        /\ h = 5 => bucket = "Night"
        /\ h = 6 => bucket = "Morning"
        /\ h = 21 => bucket = "Evening"
        /\ h = 22 => bucket = "Night"

\* A timestamp of 00:30 UTC, Night by its UTC hour, was counted as Morning
\* in the zone five and a half hours ahead, where it is 06:00.
C13_Witness ==
    /\ bpc = "bucketed"
    /\ utc_ts.hour = 0 /\ utc_ts.minute = 30 /\ tz = 330
    /\ local_ts.hour = 6
    /\ bucket = "Morning"

\* ------------------------------------------------------------------
\* Claims about ReadmeSection.replace and ReadmeUpdater.update_section
\* ------------------------------------------------------------------
\* The file's text after call k.
After(k) == IF k < Len(hist) THEN hist[k + 1] ELSE readme

\* C4: applying the same new inner text twice in a row is idempotent: when
\* the first update_section returned, the second returns False, writes
\* nothing and leaves the text the first call produced.
C4_SecondIsNoOp ==
    (Len(rets) = 2 /\ rets[1] \in {"True", "False"})
        => (rets[2] = "False" /\ ~wrote[2] /\ After(2) = After(1))

\* C5: on a document with a marker pair, replace changes only the content
\* of the first pair, which becomes new_inner taken literally: the result
\* is the text before the first start marker, the start marker and its
\* newline, new_inner, the newline and end marker, and all text after it.
C5_OnlyFirstRegion ==
    \A k \in 1..Len(rets) :
        LET m == Search(hist[k]) IN
        m.found =>
            /\ rets[k] \in {"True", "False"}
            /\ After(k) = Slice(hist[k], 1, m.start - 1)
                           \o StartPat \o rstrip(arg) \o EndPat
                           \o Slice(hist[k], m.stop + Len(EndPat), Len(hist[k]))

\* The document holds the start marker and, somewhere after it, the end marker.
HasPair(doc) ==
    \E i \in 1..Len(doc) : \E j \in 1..Len(doc) :
        /\ IsAt(doc, StartMarker, i)
        /\ IsAt(doc, EndMarker, j)
        /\ j >= i + Len(StartMarker)

\* C6: on a document without the start marker followed later by the end
\* marker, replace raises the markers-not-found error and update_section
\* propagates it without writing: the file is the same before and after.
C6_MissingMarkers ==
    \A k \in 1..Len(rets) :
        ~HasPair(hist[k]) =>
            /\ rets[k] = "ValueError"
            /\ ~wrote[k]
            /\ After(k) = hist[k]

\* A call was made on a document that holds a start marker but no end
\* marker after it; it raised and the file is as it was.
C6_Witness ==
    /\ Len(rets) >= 1
    /\ ~HasPair(hist[1])
    /\ \E i \in 1..Len(hist[1]) : IsAt(hist[1], StartMarker, i)
    /\ rets[1] = "ValueError"
    /\ After(1) = hist[1]

\* ------------------------------------------------------------------
\* Claims about GitHubClient.paginate and GitHubClient.request
\* ------------------------------------------------------------------
FullPage(res) == res.kind = "list" /\ res.n = PerPage
ShortPage(res) == res.kind = "list" /\ 0 < res.n /\ res.n < PerPage
EndOfData(res) == (res.kind = "list" /\ res.n = 0) \/ res.kind = "dict"
Failed(res) == res.kind \in {"TransportError", "HTTPError", "JSONError"}

\* The lengths of the lists among the results that are not empty, in order.
RECURSIVE NonEmptyLens(_)
NonEmptyLens(rs) ==
    IF rs = << >> THEN << >>
    ELSE IF rs[1].kind = "list" /\ rs[1].n > 0
         THEN <<rs[1].n>> \o NonEmptyLens(Tail(rs))
         ELSE NonEmptyLens(Tail(rs))

\* C7: paginate requests pages 1, 2, 3, ... in order; every request but the
\* last was answered by a full page, so nothing is requested after an empty
\* list, a short list or a value that is no list; a full page is followed by
\* the request for the next page (the generator does not end on it); exactly
\* the lists that are not empty are yielded; an empty list or a value that
\* is no list ends the generator without an error; and a finite collection
\* is read in finitely many requests.
C7_Paging ==
    /\ reqPages = [i \in 1..Len(reqPages) |-> i]
    /\ Len(results) \in {Len(reqPages), Len(reqPages) - 1}
    /\ \A i \in 1..Len(results) : i < Len(reqPages) => FullPage(results[i])
    /\ yielded = NonEmptyLens(results)
    /\ cpc = "done" =>
          /\ Len(results) = Len(reqPages) /\ results # << >>
          /\ LET last == results[Len(results)] IN ShortPage(last) \/ EndOfData(last)
    /\ cpc = "raised" => results # << >> /\ Failed(results[Len(results)])
    /\ (cpc = "call" /\ results # << >>) =>
          FullPage(results[Len(results)]) /\ page = Len(results) + 1
    /\ (results # << >> /\ Len(results) = Len(reqPages)
        /\ EndOfData(results[Len(results)])) => cpc = "done"
    /\ Len(reqPages) <= (MaxCommits \div PerPage) + 1

\* A full first page was followed by the request for page 2, whose short
\* page ended the generator.
C7_Witness ==
    /\ cpc = "done"
    /\ reqPages = <<1, 2>>
    /\ FullPage(results[1])
    /\ ShortPage(results[2])

\* The current request() call sent twice only after a first response that
\* is a quota-exhausted rejection.
SecondSendOnlyOnExhausted ==
    /\ Len(sent) <= 2
    /\ (Len(sent) = 2 \/ cpc = "retry") =>
          sent[1].status = 403 /\ sent[1].remaining = 0

\* A failing response that is not followed by a retry makes request() raise.
FailuresPropagate ==
    /\ (Len(sent) >= 1 /\ sent[1].status >= 400
        /\ ~(sent[1].status = 403 /\ sent[1].remaining = 0)) =>
          Len(sent) = 1 /\ cpc = "raised"
    /\ (Len(sent) = 2 /\ sent[2].status >= 400) => cpc = "raised"

\* C8: one request() call sends a second time only when the first response
\* is a quota-exhausted rejection, then exactly once and after a blocking
\* wait; a failing second response propagates; every other failing first
\* response propagates with no second send.
C8_OneRetryAfterWait ==
    /\ SecondSendOnlyOnExhausted
    /\ FailuresPropagate
    /\ (Len(sent) = 2 \/ cpc = "retry") =>
          (sleeps # << >> /\ sleeps[1].at = "retry")

\* The back-off sleeps of the current request() call, without the wait
\* before a retry.
ReturnSleeps == SelectSeq(sleeps, LAMBDA s : s.at = "return")

\* The current request() call got past raise_for_status.
PassedStatusCheck ==
    /\ cpc \in {"yielded", "done", "raised"}
    /\ sent # << >>
    /\ sent[Len(sent)].status < 400

\* The back-off before returning is the one the headers of resp call for.
BackoffFollows(resp) ==
    LET rs == ReturnSleeps
        t == IF rs = << >> THEN now ELSE now - rs[1].secs
    IN  /\ (resp.remaining # None /\ resp.remaining > 1) => rs = << >>
        /\ (resp.remaining # None /\ resp.remaining <= 1 /\ resp.reset_epoch # None) =>
              /\ Len(rs) = 1
              /\ rs[1].secs = Min(Max(0, resp.reset_epoch - t) + 2, 300)

\* C14: when request() gets past the status check, its back-off decision
\* is the one of the latest response, the response to a retry included:
\* with remaining above the threshold (1) it does not sleep, and with
\* remaining at or below it, it sleeps until the reset time plus 2 seconds,
\* at most 300 seconds.
C14_BackoffUsesLatest ==
    PassedStatusCheck => BackoffFollows(sent[Len(sent)])

\* The part of C14 that the code keeps: the back-off follows the first
\* response of the call, which is the latest one when there was no retry.
BackoffUsesFirst ==
    PassedStatusCheck => BackoffFollows(sent[1])

\* ------------------------------------------------------------------
\* Claims about fetch_daily_contributions and compute_streaks
\* ------------------------------------------------------------------
WindowFrom == today - (days - 1)
\* The entries of the source for day d, in the order the source gives them.
SourceOf(d) == SelectSeq(entries, LAMBDA e : e.day = d)

\* The series has one point per day of the window, ascending without gaps.
DenseSeries ==
    spc = "filled" =>
        /\ Len(filled) = days
        /\ \A i \in 1..Len(filled) : filled[i].day = WindowFrom + i - 1

\* C9: the series has exactly one DayPoint per day of the window, ascending
\* with no gaps, and whatever the source holds (any order, days outside the
\* window, missing days, repeated days) the point of a day carries a count
\* the source gives for that day when the source lists the day, and 0 when
\* it does not.
C9_DailySeries ==
    /\ DenseSeries
    /\ spc = "filled" =>
          \A i \in 1..Len(filled) :
              LET src == SourceOf(filled[i].day) IN
              IF src = << >> THEN filled[i].count = 0
              ELSE \E k \in 1..Len(src) : filled[i].count = src[k].count

\* No day of the window is listed twice by the source.
NoRepeatedDay ==
    \A d \in WindowFrom..today : Len(SourceOf(d)) <= 1

\* What the code does keep of C9: the series is dense, and when no day of the
\* window is repeated every listed day carries its count.
DailySeriesWithoutRepeats ==
    /\ DenseSeries
    /\ (spc = "filled" /\ NoRepeatedDay) =>
          \A i \in 1..Len(filled) :
              LET src == SourceOf(filled[i].day) IN
              filled[i].count = IF src = << >> THEN 0 ELSE src[1].count

\* The counts of the series given to compute_streaks.
CountAt(i) == points[i].count
\* Days a..b all have a count above zero.
AllActive(a, b) == \A i \in a..b : CountAt(i) > 0
\* The lengths of the runs of active days, and of those that end the series.
RunLengths ==
    {k \in 0..Len(points) : \E a \in 1..(Len(points) - k + 1) : AllActive(a, a + k - 1)}
TailRunLengths ==
    {k \in 0..Len(points) : AllActive(Len(points) - k + 1, Len(points))}
Largest(S) == CHOOSE k \in S : \A j \in S : j <= k
CountsOf == [i \in 1..Len(points) |-> CountAt(i)]

\* C10: compute_streaks returns (total, current, longest) with total the sum
\* of the counts, longest the length of the longest run of consecutive days
\* with count > 0, and current the length of the run of such days that ends
\* the series (0 when the last day has count 0); the empty series gives
\* (0, 0, 0); counts 1,1,0,1,1,1 give total 5, longest 3, current 3 and
\* counts 1,0,0 give current 0, longest 1.
C10_Streaks ==
    kpc = "computed" =>
        /\ streaks[1] = SumOver(CountsOf, 1..Len(points))
        /\ streaks[2] = Largest(TailRunLengths)
        /\ streaks[3] = Largest(RunLengths)
        /\ (points # << >> /\ CountAt(Len(points)) = 0) => streaks[2] = 0
        /\ points = << >> => streaks = <<0, 0, 0>>
        /\ CountsOf = <<1, 1, 0, 1, 1, 1>> => streaks = <<5, 3, 3>>
        /\ CountsOf = <<1, 0, 0>> => (streaks[2] = 0 /\ streaks[3] = 1)

\* compute_streaks has returned for the series 1,1,0,1,1,1.
C10_Witness ==
    /\ kpc = "computed"
    /\ CountsOf = <<1, 1, 0, 1, 1, 1>>
    /\ streaks = <<5, 3, 3>>

====
